---- MODULE Spec2Model ----
(***************************************************************************)
(* Satellite ground station: the capture orchestrator                      *)
(* (python/schedule_captures.py, python/run_mission.py) and the mission    *)
(* operations server (satcom_server.py).                                   *)
(*                                                                         *)
(* One behaviour is one run of one program, chosen by `entry`:             *)
(*   "single"  schedule_captures.run_single_capture                        *)
(*   "mission" run_mission.run_mission                                     *)
(*   "daemon"  schedule_captures.run_daemon                                *)
(*   "server"  satcom_server: handle_capture and its capture threads       *)
(* Time is in seconds.  An attempt is one pass taken through the pipeline. *)
(***************************************************************************)
EXTENDS Integers, Sequences, FiniteSets, TLC

\* ---------------------------------------------------------------- bounds
\* attempts of one run of the server: the capture threads it starts
MaxAttempts == 2
\* attempts of one run of the daemon: the passes it runs
MaxDaemonRuns == 1
\* how many seconds longer than asked a time.sleep may last
MaxOversleep == 1
\* seconds by which the clock advances while a capture process runs
ClockStep == 180

\* ----------------------------------------------------- program constants
PRE_AOS_MARGIN_SEC == 30
POST_LOS_MARGIN_SEC == 30
CAPTURE_GRACE_SEC == 60
COARSE_SLEEP_SEC == 60
MEDIUM_SLEEP_SEC == 10
FINE_SLEEP_SEC == 1
DAEMON_PAUSE_SEC == 60
DAEMON_IDLE_SEC == 1800
DAEMON_LOOKAHEAD_SEC == 3600
DAEMON_MAX_AHEAD_HOURS == 12
SERVER_EARLY_SEC == 120

Attempts == 1..MaxAttempts
\* POST /api/capture requests of one run of the server
MaxRequests == MaxAttempts + 1
Entries == {"single", "mission", "daemon", "server"}
\* None, and a value that is there: a path, a pass_info
None == << >>
Some(x) == <<x>>

\* AOS of a pass, as seconds after the instant the pass is selected: capture
\* start already past, and a start less than 10 s, 10..60 s and over 60 s away
AosOffsets == {20, 35, 55, 100}
\* AOS of a requested pass, as seconds after the request: a pass that is over,
\* one in progress, one that starts within two minutes, one further away
ServerAosOffsets == {-100, -30, 100, 200}
\* the one whose request may come without aos_utc and los_utc
UntimedOffsets == {100}
\* LOS - AOS of a pass
Durations == {60}
\* AOS of the daemon's next pass, as seconds after the passes are listed:
\* within two minutes, and two hours away
DaemonOffsets == {20, 100, 7200}
\* run_daemon(hours): the daemon's running time, in seconds
DaemonSeconds == {3600}
\* the running time of a daemon that looks two hours ahead
LongDaemonSeconds == {7200}

VARIABLES
    entry,            \* the program that runs
    opts,             \* run_mission's arguments wait and skip_decode
    now,              \* wall clock (datetime.utcnow(), time.time())
    pc,               \* pc[a]: where attempt a is in its function
    pass,             \* pass[a]: pass_info of attempt a
    wait_seconds,     \* wait_seconds[a]: wait_for_pass's local variable
    slept,            \* slept[a]: wait_for_pass called time.sleep
    waited,           \* waited[a]: wait_for_pass was called and returned
    proc,             \* proc[a]: the external capture process of attempt a
    deadline,         \* deadline[a]: when subprocess.run's timeout expires
    raised,           \* raised[a]: the exception that left execute_capture
    capture_file,     \* capture_file[a]: what execute_capture returned
    files,            \* the capture artifacts that exist on disk
    decode_result,    \* decode_result[a]: "unset", "ok" or "None"
    mission_entry,    \* mission_entry[a]: run_capture_async's dict, and
                      \* run_mission's capture_success and decode_success
    decoder_invoked,  \* decoder_invoked[a]: decode_apt was called
    outcome,          \* outcome[a]: how the attempt's function ended
    capturing,        \* state.capturing
    current_capture,  \* state.current_capture
    resp,             \* the answer to the last POST /api/capture
    requests,         \* the POST /api/capture requests handled so far
    mission_log,      \* data/mission_log.json
    missions,         \* data/missions.json (data_store)
    loaded,           \* loaded[a]: the log append_mission_log has read
    logged,           \* logged[a]: the calls of a log function a has made
    capture_history,  \* state.capture_history
    dpc,              \* run_daemon's position
    end_time          \* run_daemon's end_time

VARIABLES
    candidates,            \* generate_schedule: passes, each with its score
    constraints,           \* ScheduleOptimizer.constraints
    spc,                   \* spc[r]: where run r of generate_schedule is
    scored_passes,         \* scored_passes[r]: the candidates in sorted order
    item,                  \* item[r]: the place of the loop in scored_passes
    schedule,              \* schedule[r]: _apply_constraints' schedule
    captures_by_day,       \* captures_by_day[r]
    consecutive_same_sat,  \* consecutive_same_sat[r]
    last_satellite,        \* last_satellite[r]
    last_end_time,         \* last_end_time[r]
    decision               \* decision[r][c]: what became of candidate c

VARIABLES
    builder,       \* the function that builds passes from events
    events,        \* zip(t, events): what find_events returned
    epos,          \* the place of the loop in events
    current_pass,  \* current_pass
    passes         \* passes: the passes emitted so far

VARIABLES
    decoder,         \* the decoder that runs: decode_apt or decode_wav
    envelope_len,    \* len(envelope)
    peaks,           \* find_sync_pulses: the peaks it returned
    sync_positions,  \* sync_positions
    dec_pc,          \* where the decoder is
    lines,           \* extract_lines: lines
    line_no,         \* the place of extract_lines' loop in sync_positions
    metadata         \* decode_apt: metadata

VARIABLES
    doppler_fn,    \* the function that computes a Doppler profile
    center_freq,   \* center_freq_hz, in kHz
    v_radial,      \* the radial velocity at each profile point, in dm/s
    doppler_hz     \* doppler_hz: the profile points computed so far

VARIABLES
    next_n,          \* what optimize_next_n returned, once it has
    default_config,  \* DEFAULT_CONFIG: the dicts its sections refer to
    config_file,     \* config.json: absent, or what it holds
    config           \* config: what load_config returned, as its caller left it

passVars == <<pass, wait_seconds, slept, waited, proc, deadline, raised, capture_file,
              decode_result, mission_entry, decoder_invoked, outcome>>
stateVars == <<capturing, current_capture, resp, requests, capture_history>>
logVars == <<mission_log, missions, loaded, logged>>
daemonVars == <<dpc, end_time>>
pipelineVars == <<entry, opts, now, pc, files, passVars, stateVars, logVars,
                  daemonVars>>
schedVars == <<candidates, constraints, spc, scored_passes, item, schedule,
               captures_by_day, consecutive_same_sat, last_satellite,
               last_end_time, decision>>
builderVars == <<builder, events, epos, current_pass, passes>>
decoderVars == <<decoder, envelope_len, peaks, sync_positions, dec_pc, lines,
                 line_no, metadata>>
dopplerVars == <<doppler_fn, center_freq, v_radial, doppler_hz>>
configVars == <<default_config, config_file, config>>
auxVars == <<dopplerVars, next_n, configVars>>
toolVars == <<schedVars, builderVars, decoderVars, auxVars>>
vars == <<pipelineVars, toolVars>>

\* pass_info: AOS, LOS - AOS, and whether it carries aos_time/los_time (or the
\* aos_utc/los_utc they are converted from)
NoPass == [aos |-> 0, dur |-> 0, has_times |-> FALSE]

\* the two runs of generate_schedule that are compared
Runs == {1, 2}
\* no schedule is being made
SchedulerOff ==
    /\ candidates = << >>
    /\ constraints = [min_gap_minutes |-> 0]
    /\ spc = [r \in Runs |-> "off"]
    /\ scored_passes = [r \in Runs |-> << >>]
    /\ item = [r \in Runs |-> 0]
    /\ schedule = [r \in Runs |-> << >>]
    /\ captures_by_day = [r \in Runs |-> << >>]
    /\ consecutive_same_sat = [r \in Runs |-> 0]
    /\ last_satellite = [r \in Runs |-> None]
    /\ last_end_time = [r \in Runs |-> None]
    /\ decision = [r \in Runs |-> << >>]

\* no pass list is being built
BuilderOff ==
    /\ builder = "off"
    /\ events = << >>
    /\ epos = 0
    /\ current_pass = << >>
    /\ passes = << >>

\* no capture is being decoded
DecoderOff ==
    /\ decoder = "off"
    /\ envelope_len = 0
    /\ peaks = << >>
    /\ sync_positions = << >>
    /\ dec_pc = "off"
    /\ lines = << >>
    /\ line_no = 0
    /\ metadata = << >>

\* no Doppler profile is being computed
DopplerOff ==
    /\ doppler_fn = "off"
    /\ center_freq = 0
    /\ v_radial = << >>
    /\ doppler_hz = << >>

\* the server's configuration is not looked at
ConfigOff ==
    /\ default_config = << >>
    /\ config_file = << >>
    /\ config = << >>

AuxOff == DopplerOff /\ next_n = << >> /\ ConfigOff

\* the programs that read and schedule passes and decode captures, at rest
ToolsOff == SchedulerOff /\ BuilderOff /\ DecoderOff /\ AuxOff

Init ==
    /\ ToolsOff
    /\ entry \in Entries
    /\ opts \in [wait : BOOLEAN, skip_decode : BOOLEAN]
    /\ (entry # "mission") => opts = [wait |-> TRUE, skip_decode |-> FALSE]
    /\ now = 0
    /\ pc = [a \in Attempts |-> "idle"]
    /\ pass = [a \in Attempts |-> NoPass]
    /\ wait_seconds = [a \in Attempts |-> 0]
    /\ slept = [a \in Attempts |-> FALSE]
    /\ waited = [a \in Attempts |-> FALSE]
    /\ proc = [a \in Attempts |-> "none"]
    /\ deadline = [a \in Attempts |-> 0]
    /\ raised = [a \in Attempts |-> ""]
    /\ capture_file = [a \in Attempts |-> None]
    /\ files = {}
    /\ decode_result = [a \in Attempts |-> "unset"]
    /\ mission_entry = [a \in Attempts |-> [status |-> "none"]]
    /\ decoder_invoked = [a \in Attempts |-> FALSE]
    /\ outcome = [a \in Attempts |-> "none"]
    /\ capturing = FALSE
    /\ current_capture = None
    /\ resp = "none"
    /\ requests = 0
    /\ mission_log = << >>
    /\ missions = << >>
    /\ loaded = [a \in Attempts |-> << >>]
    /\ logged = [a \in Attempts |-> 0]
    /\ capture_history = << >>
    /\ dpc = IF entry = "daemon" THEN "loop" ELSE "off"
    /\ end_time \in DaemonSeconds

\* ------------------------------------------------------------- helpers
Put(d, k, v) == (k :> v) @@ d
Has(d, k) == k \in DOMAIN d

Started == {a \in Attempts : pc[a] # "idle"}
NextAttempt == Cardinality(Started) + 1

\* wait_for_pass: start_time = aos - pre_aos_margin_sec
StartTime(p) == p.aos - PRE_AOS_MARGIN_SEC
\* wait_for_pass: wait_seconds = (start_time - now).total_seconds()
WaitSecondsAt(p, t) == StartTime(p) - t
\* wait_for_pass: "if wait_seconds <= 0: return", "while wait_seconds > 0"
WaitOver(w) == w <= 0
\* wait_for_pass: the length of the next sleep
SleepFor(w) ==
    IF w > COARSE_SLEEP_SEC THEN COARSE_SLEEP_SEC
    ELSE IF w > MEDIUM_SLEEP_SEC THEN MEDIUM_SLEEP_SEC
    ELSE FINE_SLEEP_SEC
\* a wait that trusts the sleep: the time asked for is taken off, no clock read
RemainingIfSleepExact(p, w, asked, t) == w - asked
\* wait_for_pass: wait_seconds after a sleep, from the clock read again
Remaining(p, w, asked, t) == WaitSecondsAt(p, t)

\* execute_capture: duration_sec
DurationSec(p) == p.dur + PRE_AOS_MARGIN_SEC + POST_LOS_MARGIN_SEC
\* execute_capture: subprocess.run(..., timeout=duration_sec + 60)
CaptureTimeout(p) == DurationSec(p) + CAPTURE_GRACE_SEC
\* a subprocess.run with no timeout: it never expires
TimedOutWithoutTimeout(t, d) == FALSE
\* subprocess.run: the timeout has expired at t
TimedOut(t, d) == t >= d
\* execute_capture: output_file, named after the satellite and the AOS
OutputFile(p) == Some(p.aos)
\* os.path.exists
Exists(f, fs) == f \in fs
\* an execute_capture that handles the missing program only
CaughtNotTimeout(exc) == exc \in {"FileNotFoundError"}
\* execute_capture: the exceptions of subprocess.run it turns into None
Caught(exc) == exc \in {"TimeoutExpired", "FileNotFoundError"}
\* execute_capture: what it returns when the process has exited with rc
Returned(rc, out) == IF rc = 0 THEN out ELSE None

\* log_mission (schedule_captures), run_mission: capture_success
CaptureSuccess(cf, fs) == cf # None /\ Exists(cf, fs)
\* run_capture_async: mission_entry['capture_success']
ServerCaptureSuccess(cf, fs) == cf # None

\* the passes an attempt may be given, AOS counted from t
PassesAt(t, offs, untimed) ==
    {[aos |-> t + o, dur |-> d, has_times |-> TRUE] : o \in offs, d \in Durations}
    \cup
    {[aos |-> t + o, dur |-> d, has_times |-> FALSE] :
        o \in untimed, d \in Durations}

\* ------------------------------------------------ the command-line paths
\* run_single_capture, run_mission: a pass is selected
Select(a) ==
    /\ entry \in {"single", "mission"}
    /\ a = 1
    /\ pc[a] = "idle"
    /\ \E p \in PassesAt(now, AosOffsets, {}) :
          pass' = [pass EXCEPT ![a] = p]
    /\ pc' = [pc EXCEPT ![a] = "selected"]
    /\ UNCHANGED <<entry, opts, now, files, wait_seconds, slept, waited, proc,
                   deadline, raised, capture_file, decode_result, mission_entry,
                   decoder_invoked, outcome, stateVars, logVars, daemonVars>>

\* whether the caller calls wait_for_pass: run_single_capture always,
\* run_mission when wait and time_until > 0
CallsWait(a) ==
    \/ entry \in {"single", "daemon"}
    \/ entry = "mission" /\ opts.wait /\ pass[a].aos - now > 0

\* run_mission: "elif time_until > 0 and not wait: return None"
Declines(a) ==
    entry = "mission" /\ ~opts.wait /\ pass[a].aos - now > 0

\* wait_for_pass up to its loop, and run_mission's step 4
BeginWait(a) ==
    /\ entry # "server"
    /\ pc[a] = "selected"
    /\ LET w == WaitSecondsAt(pass[a], now) IN
       IF CallsWait(a)
       THEN /\ wait_seconds' = [wait_seconds EXCEPT ![a] = w]
            /\ pc' = [pc EXCEPT ![a] = IF WaitOver(w) THEN "ready" ELSE "waiting"]
            /\ waited' = [waited EXCEPT ![a] = WaitOver(w)]
            /\ UNCHANGED outcome
       ELSE /\ pc' = [pc EXCEPT ![a] = IF Declines(a) THEN "done" ELSE "ready"]
            /\ outcome' = [outcome EXCEPT ![a] =
                              IF Declines(a) THEN "failed" ELSE @]
            /\ UNCHANGED <<wait_seconds, waited>>
    /\ UNCHANGED <<entry, opts, now, files, pass, slept, proc, deadline, raised,
                   capture_file, decode_result, mission_entry, decoder_invoked,
                   stateVars, logVars, daemonVars>>

\* wait_for_pass: one turn of the loop: sleep, read the clock, test again
SleepStep(a, over) ==
    /\ pc[a] = "waiting"
    /\ LET asked == SleepFor(wait_seconds[a])
           t == now + asked + over
           w == Remaining(pass[a], wait_seconds[a], asked, t)
       IN /\ now' = t
          /\ wait_seconds' = [wait_seconds EXCEPT ![a] = w]
          /\ pc' = [pc EXCEPT ![a] = IF WaitOver(w) THEN "ready" ELSE "waiting"]
          /\ waited' = [waited EXCEPT ![a] = WaitOver(w)]
    /\ slept' = [slept EXCEPT ![a] = TRUE]
    /\ UNCHANGED <<entry, opts, files, pass, proc, deadline, raised, capture_file,
                   decode_result, mission_entry, decoder_invoked, outcome,
                   stateVars, logVars, daemonVars>>

\* Ctrl+C while wait_for_pass sleeps: KeyboardInterrupt leaves time.sleep,
\* wait_for_pass and its callers, none of which handles it
Interrupt(a) ==
    /\ pc[a] = "waiting"
    /\ pc' = [pc EXCEPT ![a] = "aborted"]
    /\ outcome' = [outcome EXCEPT ![a] = "aborted"]
    /\ dpc' = IF entry = "daemon" THEN "aborted" ELSE dpc
    /\ UNCHANGED <<entry, opts, now, files, pass, wait_seconds, slept, waited,
                   proc, deadline, raised, capture_file, decode_result,
                   mission_entry, decoder_invoked, stateVars, logVars, end_time>>

\* an exception in execute_capture: caught there, the function returns None;
\* not caught, it leaves the attempt and the daemon, and in the server it
\* reaches run_capture_async's "except Exception"
Raise(a, exc, cause) ==
    /\ proc' = [proc EXCEPT ![a] = cause]
    /\ IF Caught(exc)
       THEN /\ capture_file' = [capture_file EXCEPT ![a] = None]
            /\ pc' = [pc EXCEPT ![a] = "captured"]
            /\ UNCHANGED <<raised, outcome, dpc>>
       ELSE /\ raised' = [raised EXCEPT ![a] = exc]
            /\ pc' = [pc EXCEPT ![a] =
                         IF entry = "server" THEN "captured" ELSE "aborted"]
            /\ outcome' = [outcome EXCEPT ![a] =
                              IF entry = "server" THEN @ ELSE "aborted"]
            /\ dpc' = IF entry = "daemon" THEN "aborted" ELSE dpc
            /\ UNCHANGED capture_file

\* execute_capture up to subprocess.run: pass_info['aos_time'] is read (a
\* KeyError when the request had no times), then the command is started, or
\* its program is not there
Launch(a, found) ==
    /\ pc[a] = IF entry = "server" THEN "selected" ELSE "ready"
    /\ IF ~pass[a].has_times
       THEN /\ Raise(a, "KeyError", "none")
            /\ UNCHANGED deadline
       ELSE IF found
       THEN /\ pc' = [pc EXCEPT ![a] = "capturing"]
            /\ proc' = [proc EXCEPT ![a] = "running"]
            /\ deadline' = [deadline EXCEPT ![a] = now + CaptureTimeout(pass[a])]
            /\ UNCHANGED <<raised, capture_file, outcome, dpc>>
       ELSE /\ Raise(a, "FileNotFoundError", "missing")
            /\ UNCHANGED deadline
    /\ UNCHANGED <<entry, opts, now, files, pass, wait_seconds, slept, waited,
                   decode_result, mission_entry, decoder_invoked, stateVars,
                   logVars, end_time>>

\* the capture process exits with status rc, having written its output or not
ProcExit(a, rc, wrote) ==
    /\ pc[a] = "capturing"
    /\ now < deadline[a]
    /\ proc' = [proc EXCEPT ![a] = IF rc = 0 THEN "exit0" ELSE "exitN"]
    /\ files' = IF wrote THEN files \cup {OutputFile(pass[a])} ELSE files
    /\ capture_file' = [capture_file EXCEPT ![a] = Returned(rc, OutputFile(pass[a]))]
    /\ pc' = [pc EXCEPT ![a] = "captured"]
    /\ UNCHANGED <<entry, opts, now, pass, wait_seconds, slept, waited, deadline,
                   raised, decode_result, mission_entry, decoder_invoked, outcome,
                   stateVars, logVars, daemonVars>>

\* subprocess.run's timeout expires: the process is killed, TimeoutExpired
TimeoutExpired(a, wrote) ==
    /\ pc[a] = "capturing"
    /\ TimedOut(now, deadline[a])
    /\ files' = IF wrote THEN files \cup {OutputFile(pass[a])} ELSE files
    /\ Raise(a, "TimeoutExpired", "timeout")
    /\ UNCHANGED <<entry, opts, now, pass, wait_seconds, slept, waited, deadline,
                   decode_result, mission_entry, decoder_invoked, stateVars,
                   logVars, end_time>>

\* time passes while a capture process runs
Tick ==
    /\ \E a \in Attempts : pc[a] = "capturing" /\ now < deadline[a]
    /\ now' = now + ClockStep
    /\ UNCHANGED <<entry, opts, pc, files, passVars, stateVars, logVars, daemonVars>>

\* ------------------------------------------------------ mission records
\* a log function that writes the log back without the record
AppendRecordDropped(log, rec) == log
\* log_mission, append_mission_log: the log with the record appended
AppendRecord(log, rec) == Append(log, rec)

\* schedule_captures.log_mission with decode_success taken from the capture
PipelineRecordDecodeFromCapture(a, p, cf, dr, fs) ==
    [by |-> a, satellite |-> "NOAA", aos_utc |-> p.aos, los_utc |-> p.aos + p.dur,
     max_elevation_deg |-> 0, duration_sec |-> p.dur, capture_file |-> cf,
     capture_success |-> cf # None /\ Exists(cf, fs),
     decode_success |-> cf # None,
     image_file |-> IF dr = "ok" THEN cf ELSE None]

\* schedule_captures.log_mission: the record it appends.  `by` stands for the
\* record's timestamp: it tells the attempt that wrote it
PipelineRecord(a, p, cf, dr, fs) ==
    [by |-> a, satellite |-> "NOAA", aos_utc |-> p.aos, los_utc |-> p.aos + p.dur,
     max_elevation_deg |-> 0, duration_sec |-> p.dur, capture_file |-> cf,
     capture_success |-> CaptureSuccess(cf, fs),
     decode_success |-> (dr = "ok"),
     image_file |-> IF dr = "ok" THEN cf ELSE None]

\* data_store.log_mission: the record it appends
StoreRecord(a, p, cs, ds, cf, img, notes) ==
    [by |-> a, id |-> a, satellite |-> "NOAA", aos_utc |-> p.aos,
     los_utc |-> p.aos + p.dur, duration_sec |-> p.dur, max_elevation_deg |-> 0,
     capture_success |-> cs, decode_success |-> ds, capture_file |-> cf,
     image_file |-> img, snr_db |-> None, sync_pulses_found |-> None,
     weather |-> None, notes |-> notes]

\* run_capture_async: mission_entry as first built
NewEntry(a) ==
    [by |-> a, satellite |-> "NOAA", max_elevation_deg |-> 0,
     status |-> "capturing", capture_file |-> None, decoded_image |-> None]

\* whether decode_apt is called after the capture step: decode_capture's and
\* decode_capture_file's test of the file, run_mission's skip_decode,
\* run_capture_async's test of mission_entry
InvokesDecoder(e, o, cf, fs, me) ==
    IF e = "server"
    THEN Has(me, "capture_success") /\ me.capture_success /\ me.capture_file # None
    ELSE IF e = "mission"
    THEN CaptureSuccess(cf, fs) /\ ~o.skip_decode
    ELSE ~(cf = None \/ ~Exists(cf, fs))

\* run_capture_async: mission_entry after the capture try block
CapturedEntry(me, cf, fs, exc) ==
    IF exc # ""
    THEN Put(Put(me, "capture_success", FALSE), "error", exc)
    ELSE Put(Put(me, "capture_file", cf), "capture_success",
             ServerCaptureSuccess(cf, fs))

\* what follows execute_capture, up to the call of the decoder or to the log
AfterCapture(a) ==
    /\ pc[a] = "captured"
    /\ LET cf == capture_file[a]
           me == IF entry = "server"
                 THEN CapturedEntry(mission_entry[a], cf, files, raised[a])
                 ELSE IF entry = "mission"
                 THEN Put(mission_entry[a], "capture_success",
                          CaptureSuccess(cf, files))
                 ELSE mission_entry[a]
           failed == entry = "mission" /\ ~CaptureSuccess(cf, files)
           dec == InvokesDecoder(entry, opts, cf, files, me)
       IN /\ mission_entry' = [mission_entry EXCEPT ![a] =
                IF entry = "mission" /\ ~failed /\ opts.skip_decode
                THEN Put(me, "decode_success", FALSE) ELSE me]
          /\ IF failed
             THEN \* run_mission: the failed mission is logged, and it returns
                  /\ missions' = AppendRecord(missions,
                        StoreRecord(a, pass[a], FALSE, FALSE, None, None,
                                    "Capture failed"))
                  /\ logged' = [logged EXCEPT ![a] = @ + 1]
                  /\ outcome' = [outcome EXCEPT ![a] = "failed"]
                  /\ pc' = [pc EXCEPT ![a] = "done"]
                  /\ UNCHANGED <<decode_result, decoder_invoked>>
             ELSE /\ pc' = [pc EXCEPT ![a] = IF dec THEN "decoding" ELSE "logging"]
                  /\ decoder_invoked' = [decoder_invoked EXCEPT ![a] = dec]
                  /\ decode_result' = [decode_result EXCEPT ![a] =
                        IF dec \/ entry = "server" THEN @ ELSE "None"]
                  /\ UNCHANGED <<missions, logged, outcome>>
    /\ UNCHANGED <<entry, opts, now, files, pass, wait_seconds, slept, waited,
                   proc, deadline, raised, capture_file, stateVars, mission_log,
                   loaded, daemonVars>>

\* decode_apt returns its result (ok) or raises; it raises when the capture
\* file cannot be read.  decode_capture and decode_capture_file turn the
\* exception into None, run_capture_async into decode_success = False
DecodeDone(a, ok) ==
    /\ pc[a] = "decoding"
    /\ ok => Exists(capture_file[a], files)
    /\ decode_result' = [decode_result EXCEPT ![a] = IF ok THEN "ok" ELSE "None"]
    /\ mission_entry' = [mission_entry EXCEPT ![a] =
          IF entry = "server"
          THEN IF ok THEN Put(Put(@, "decoded_image", capture_file[a]),
                              "decode_success", TRUE)
                     ELSE Put(@, "decode_success", FALSE)
          ELSE IF entry = "mission" THEN Put(@, "decode_success", ok)
          ELSE @]
    /\ pc' = [pc EXCEPT ![a] = "logging"]
    /\ UNCHANGED <<entry, opts, now, files, pass, wait_seconds, slept, waited,
                   proc, deadline, raised, capture_file, decoder_invoked, outcome,
                   stateVars, logVars, daemonVars>>

\* schedule_captures.log_mission and the return of run_single_capture;
\* run_mission's step 7 and its return
LogMission(a) ==
    /\ entry # "server"
    /\ pc[a] = "logging"
    /\ IF entry = "mission"
       THEN /\ missions' = AppendRecord(missions,
                  StoreRecord(a, pass[a], mission_entry[a].capture_success,
                              mission_entry[a].decode_success, capture_file[a],
                              IF decode_result[a] = "ok" THEN capture_file[a]
                                                         ELSE None,
                              None))
            /\ UNCHANGED mission_log
       ELSE /\ mission_log' = AppendRecord(mission_log,
                  PipelineRecord(a, pass[a], capture_file[a], decode_result[a],
                                 files))
            /\ UNCHANGED missions
    /\ logged' = [logged EXCEPT ![a] = @ + 1]
    /\ outcome' = [outcome EXCEPT ![a] = "logged"]
    /\ pc' = [pc EXCEPT ![a] = "done"]
    /\ UNCHANGED <<entry, opts, now, files, pass, wait_seconds, slept, waited,
                   proc, deadline, raised, capture_file, decode_result,
                   mission_entry, decoder_invoked, stateVars, loaded, daemonVars>>

\* ------------------------------------------------------------ the server
\* handle_capture: pass_is_active
PassIsActive(p, t) == p.aos <= t /\ p.aos + p.dur > t
\* handle_capture: "if not pass_is_active and secs_until_aos > 120"
TooEarly(p, t) == ~PassIsActive(p, t) /\ p.aos - t > SERVER_EARLY_SEC
\* a handle_capture with no test of state.capturing
BusyUnchecked(c) == FALSE
\* handle_capture: "if state.capturing: ... 409 ... return"
Busy(c) == c

\* handle_capture, for one POST /api/capture whose body is pass p
HandleCapture(p) ==
    /\ entry = "server"
    /\ requests < MaxRequests
    /\ requests' = requests + 1
    /\ IF Busy(capturing)
       THEN /\ resp' = "busy"
            /\ UNCHANGED <<pc, pass>>
       ELSE IF TooEarly(p, now)
       THEN /\ resp' = "too_early"
            /\ UNCHANGED <<pc, pass>>
       ELSE /\ NextAttempt <= MaxAttempts
            /\ pc' = [pc EXCEPT ![NextAttempt] = "spawned"]
            /\ pass' = [pass EXCEPT ![NextAttempt] = p]
            /\ resp' = "started"
    /\ UNCHANGED <<entry, opts, now, files, wait_seconds, slept, waited, proc,
                   deadline, raised, capture_file, decode_result, mission_entry,
                   decoder_invoked, outcome, capturing, current_capture,
                   capture_history, logVars, daemonVars>>

\* run_capture_async: state.set_capturing(pass_info), mission_entry is built
SetCapturing(a) ==
    /\ pc[a] = "spawned"
    /\ capturing' = TRUE
    /\ current_capture' = Some(pass[a])
    /\ mission_entry' = [mission_entry EXCEPT ![a] = NewEntry(a)]
    /\ pc' = [pc EXCEPT ![a] = "selected"]
    /\ UNCHANGED <<entry, opts, now, files, pass, wait_seconds, slept, waited,
                   proc, deadline, raised, capture_file, decode_result,
                   decoder_invoked, outcome, resp, requests, capture_history,
                   logVars, daemonVars>>

\* run_capture_async: status 'complete'; append_mission_log reads the log
LogLoad(a) ==
    /\ entry = "server"
    /\ pc[a] = "logging"
    /\ mission_entry' = [mission_entry EXCEPT ![a] = Put(@, "status", "complete")]
    /\ loaded' = [loaded EXCEPT ![a] = mission_log]
    /\ pc' = [pc EXCEPT ![a] = "logwrite"]
    /\ UNCHANGED <<entry, opts, now, files, pass, wait_seconds, slept, waited,
                   proc, deadline, raised, capture_file, decode_result,
                   decoder_invoked, outcome, stateVars, mission_log, missions,
                   logged, daemonVars>>

\* append_mission_log writes the log it read with the entry appended;
\* state.capture_history.append(mission_entry)
LogWrite(a) ==
    /\ pc[a] = "logwrite"
    /\ mission_log' = AppendRecord(loaded[a], mission_entry[a])
    /\ capture_history' = Append(capture_history, mission_entry[a])
    /\ logged' = [logged EXCEPT ![a] = @ + 1]
    /\ pc' = [pc EXCEPT ![a] = "clearing"]
    /\ loaded' = [loaded EXCEPT ![a] = << >>]
    /\ UNCHANGED <<entry, opts, now, files, passVars, capturing, current_capture,
                   resp, requests, missions, daemonVars>>

\* a run_capture_async that ends without state.clear_capturing()
ClearCapturingSkipped(a) ==
    /\ pc[a] = "clearing"
    /\ outcome' = [outcome EXCEPT ![a] = "logged"]
    /\ pc' = [pc EXCEPT ![a] = "done"]
    /\ UNCHANGED <<entry, opts, now, files, pass, wait_seconds, slept, waited,
                   proc, deadline, raised, capture_file, decode_result,
                   mission_entry, decoder_invoked, stateVars, logVars, daemonVars>>

\* run_capture_async: "finally: state.clear_capturing()", the thread ends
ClearCapturing(a) ==
    /\ pc[a] = "clearing"
    /\ capturing' = FALSE
    /\ current_capture' = None
    /\ outcome' = [outcome EXCEPT ![a] = "logged"]
    /\ pc' = [pc EXCEPT ![a] = "done"]
    /\ UNCHANGED <<entry, opts, now, files, pass, wait_seconds, slept, waited,
                   proc, deadline, raised, capture_file, decode_result,
                   mission_entry, decoder_invoked, resp, requests, capture_history,
                   logVars, daemonVars>>

\* ------------------------------------------------------------ the daemon
\* run_daemon: "while datetime.utcnow() < end_time" is false
DaemonFinish ==
    /\ dpc = "loop"
    /\ ~(now < end_time)
    /\ dpc' = "finished"
    /\ UNCHANGED <<entry, opts, now, pc, files, passVars, stateVars, logVars,
                   end_time>>

\* run_daemon: no passes found, sleep 30 minutes, continue
DaemonIdle(over) ==
    /\ dpc = "loop"
    /\ now < end_time
    /\ now' = now + DAEMON_IDLE_SEC + over
    /\ UNCHANGED <<entry, opts, pc, files, passVars, stateVars, logVars,
                   daemonVars>>

\* run_daemon: get_upcoming_passes(hours_ahead=min(hours, 12)), in seconds
HoursAhead(hours_sec) ==
    IF hours_sec < DAEMON_MAX_AHEAD_HOURS * 3600 THEN hours_sec
    ELSE DAEMON_MAX_AHEAD_HOURS * 3600
\* run_daemon: the passes passes[0] may be, at time t of a daemon started at
\* 0 to run until end
DaemonPasses(t, end) ==
    PassesAt(t, {o \in DaemonOffsets : o <= HoursAhead(end)}, {})

\* run_daemon: the next pass is p; sleep until an hour before its AOS when it
\* is further away, then run_single_capture(next_pass)
DaemonRun(p, over) ==
    /\ dpc = "loop"
    /\ now < end_time
    /\ NextAttempt <= MaxDaemonRuns
    /\ now' = IF p.aos - now > DAEMON_LOOKAHEAD_SEC
              THEN now + (p.aos - now - DAEMON_LOOKAHEAD_SEC) + over
              ELSE now
    /\ pc' = [pc EXCEPT ![NextAttempt] = "selected"]
    /\ pass' = [pass EXCEPT ![NextAttempt] = p]
    /\ dpc' = "running"
    /\ UNCHANGED <<entry, opts, files, wait_seconds, slept, waited, proc,
                   deadline, raised, capture_file, decode_result, mission_entry,
                   decoder_invoked, outcome, stateVars, logVars, end_time>>

\* run_daemon: run_single_capture has returned; sleep 60, next iteration
DaemonResume(over) ==
    /\ dpc = "running"
    /\ \A a \in Started : pc[a] = "done"
    /\ now' = now + DAEMON_PAUSE_SEC + over
    /\ dpc' = "loop"
    /\ UNCHANGED <<entry, opts, pc, files, passVars, stateVars, logVars, end_time>>

\* ----------------------------------------------------- the specification
Oversleeps == 0..MaxOversleep

Next ==
    \/ \E a \in Attempts : Select(a)
          /\ UNCHANGED toolVars
    \/ \E a \in Attempts : BeginWait(a)
          /\ UNCHANGED toolVars
    \/ \E a \in Attempts, over \in Oversleeps : SleepStep(a, over)
          /\ UNCHANGED toolVars
    \/ \E a \in Attempts : Interrupt(a)
          /\ UNCHANGED toolVars
    \/ \E a \in Attempts, found \in BOOLEAN : Launch(a, found)
          /\ UNCHANGED toolVars
    \/ \E a \in Attempts, rc \in {0, 1}, wrote \in BOOLEAN : ProcExit(a, rc, wrote)
          /\ UNCHANGED toolVars
    \/ \E a \in Attempts, wrote \in BOOLEAN : TimeoutExpired(a, wrote)
          /\ UNCHANGED toolVars
    \/ Tick
          /\ UNCHANGED toolVars
    \/ \E a \in Attempts : AfterCapture(a)
          /\ UNCHANGED toolVars
    \/ \E a \in Attempts, ok \in BOOLEAN : DecodeDone(a, ok)
          /\ UNCHANGED toolVars
    \/ \E a \in Attempts : LogMission(a)
          /\ UNCHANGED toolVars
    \/ \E p \in PassesAt(now, ServerAosOffsets, UntimedOffsets) : HandleCapture(p)
          /\ UNCHANGED toolVars
    \/ \E a \in Attempts : SetCapturing(a)
          /\ UNCHANGED toolVars
    \/ \E a \in Attempts : LogLoad(a)
          /\ UNCHANGED toolVars
    \/ \E a \in Attempts : LogWrite(a)
          /\ UNCHANGED toolVars
    \/ \E a \in Attempts : ClearCapturing(a)
          /\ UNCHANGED toolVars
    \/ DaemonFinish
          /\ UNCHANGED toolVars
    \/ \E over \in Oversleeps : DaemonIdle(over)
          /\ UNCHANGED toolVars
    \/ \E p \in DaemonPasses(now, end_time), over \in Oversleeps :
          DaemonRun(p, over)
          /\ UNCHANGED toolVars
    \/ \E over \in Oversleeps : DaemonResume(over)
          /\ UNCHANGED toolVars

Spec == Init /\ [][Next]_vars

\* run_daemon(2) alone: the passes it is given may be two hours away
LongDaemonInit ==
    /\ ToolsOff
    /\ entry = "daemon"
    /\ opts = [wait |-> TRUE, skip_decode |-> FALSE]
    /\ now = 0
    /\ pc = [a \in Attempts |-> "idle"]
    /\ pass = [a \in Attempts |-> NoPass]
    /\ wait_seconds = [a \in Attempts |-> 0]
    /\ slept = [a \in Attempts |-> FALSE]
    /\ waited = [a \in Attempts |-> FALSE]
    /\ proc = [a \in Attempts |-> "none"]
    /\ deadline = [a \in Attempts |-> 0]
    /\ raised = [a \in Attempts |-> ""]
    /\ capture_file = [a \in Attempts |-> None]
    /\ files = {}
    /\ decode_result = [a \in Attempts |-> "unset"]
    /\ mission_entry = [a \in Attempts |-> [status |-> "none"]]
    /\ decoder_invoked = [a \in Attempts |-> FALSE]
    /\ outcome = [a \in Attempts |-> "none"]
    /\ capturing = FALSE
    /\ current_capture = None
    /\ resp = "none"
    /\ requests = 0
    /\ mission_log = << >>
    /\ missions = << >>
    /\ loaded = [a \in Attempts |-> << >>]
    /\ logged = [a \in Attempts |-> 0]
    /\ capture_history = << >>
    /\ dpc = "loop"
    /\ end_time \in LongDaemonSeconds

LongDaemonNext ==
    \/ \E a \in Attempts : BeginWait(a)
          /\ UNCHANGED toolVars
    \/ \E a \in Attempts, over \in Oversleeps : SleepStep(a, over)
          /\ UNCHANGED toolVars
    \/ \E a \in Attempts : Interrupt(a)
          /\ UNCHANGED toolVars
    \/ \E a \in Attempts, found \in BOOLEAN : Launch(a, found)
          /\ UNCHANGED toolVars
    \/ \E a \in Attempts, rc \in {0, 1}, wrote \in BOOLEAN : ProcExit(a, rc, wrote)
          /\ UNCHANGED toolVars
    \/ \E a \in Attempts, wrote \in BOOLEAN : TimeoutExpired(a, wrote)
          /\ UNCHANGED toolVars
    \/ Tick
          /\ UNCHANGED toolVars
    \/ \E a \in Attempts : AfterCapture(a)
          /\ UNCHANGED toolVars
    \/ \E a \in Attempts, ok \in BOOLEAN : DecodeDone(a, ok)
          /\ UNCHANGED toolVars
    \/ \E a \in Attempts : LogMission(a)
          /\ UNCHANGED toolVars
    \/ DaemonFinish
          /\ UNCHANGED toolVars
    \/ \E over \in Oversleeps : DaemonIdle(over)
          /\ UNCHANGED toolVars
    \/ \E p \in DaemonPasses(now, end_time), over \in Oversleeps :
          DaemonRun(p, over)
          /\ UNCHANGED toolVars
    \/ \E over \in Oversleeps : DaemonResume(over)
          /\ UNCHANGED toolVars

LongDaemonSpec == LongDaemonInit /\ [][LongDaemonNext]_vars

\* The steps of a running attempt are taken: the interpreter runs the code,
\* time passes, subprocess.run's timer fires.  Nothing makes a request
\* arrive, a pass be selected, the operator press Ctrl+C or the external
\* process exit.
Fairness ==
    /\ WF_vars(Tick /\ UNCHANGED toolVars)
    /\ \A a \in Attempts :
        /\ WF_vars(BeginWait(a) /\ UNCHANGED toolVars)
        /\ WF_vars(\E over \in Oversleeps : SleepStep(a, over) /\ UNCHANGED toolVars)
        /\ WF_vars(\E found \in BOOLEAN : Launch(a, found) /\ UNCHANGED toolVars)
        /\ WF_vars(\E wrote \in BOOLEAN : TimeoutExpired(a, wrote) /\ UNCHANGED toolVars)
        /\ WF_vars(AfterCapture(a) /\ UNCHANGED toolVars)
        /\ WF_vars(\E ok \in BOOLEAN : DecodeDone(a, ok) /\ UNCHANGED toolVars)
        /\ WF_vars(LogMission(a) /\ UNCHANGED toolVars)
        /\ WF_vars(SetCapturing(a) /\ UNCHANGED toolVars)
        /\ WF_vars(LogLoad(a) /\ UNCHANGED toolVars)
        /\ WF_vars(LogWrite(a) /\ UNCHANGED toolVars)
        /\ WF_vars(ClearCapturing(a) /\ UNCHANGED toolVars)

FairSpec == Spec /\ Fairness

\* ------------------------------------------------------------ properties
\* the records attempt a has in a log
RecordsBy(log, a) == {i \in 1..Len(log) : log[i].by = a}
\* the records of attempt a, in the log its program writes
Records(a) ==
    {mission_log[i] : i \in RecordsBy(mission_log, a)}
    \cup {missions[i] : i \in RecordsBy(missions, a)}
RecordCountIn(ml, ms, a) ==
    Cardinality(RecordsBy(ml, a)) + Cardinality(RecordsBy(ms, a))
RecordCount(a) == RecordCountIn(mission_log, missions, a)
\* the attempt's function has returned, its thread has ended
Ended(a) == outcome[a] \in {"logged", "failed"}
\* execute_capture was called for the attempt
Attempted(a) == proc[a] # "none" \/ raised[a] # ""
\* the capture step succeeded: exit status 0 and the output artifact is there
CaptureSucceeded(a) == proc[a] = "exit0" /\ Exists(OutputFile(pass[a]), files)
\* the operator interrupted the attempt's wait
Stopped(a) == pc[a] = "aborted" /\ raised[a] = ""
\* the phase of the attempt, in the order selected, waiting, capturing,
\* decoding, terminal
PhaseOf(l) ==
    CASE l \in {"idle", "spawned"} -> 0
      [] l = "selected" -> 1
      [] l = "waiting" -> 2
      [] l \in {"ready", "capturing", "captured"} -> 3
      [] l = "decoding" -> 4
      [] OTHER -> 5

\* C1: two capture requests that arrive close together result in one capture
\* and one rejection: no two capture threads are ever active at once, so no
\* two captures write the same output artifact.
ThreadActive(a) == entry = "server" /\ pc[a] \notin {"idle", "done"}

C1_OneCaptureAtATime ==
    \A a, b \in Attempts :
        a # b =>
            /\ ~(ThreadActive(a) /\ ThreadActive(b))
            /\ ~(proc[a] # "none" /\ proc[b] # "none"
                  /\ OutputFile(pass[a]) = OutputFile(pass[b]))

\* C2: a capture request handled while state.capturing is true is answered
\* with the busy error, starts no thread, and leaves state.capturing and
\* state.current_capture as they were.
C2_BusyRejected ==
    [][(requests' # requests /\ capturing)
        => /\ resp' = "busy"
           /\ pc' = pc
           /\ pass' = pass
           /\ capturing' = capturing
           /\ current_capture' = current_capture]_vars

C2_Witness == resp = "busy" /\ capturing /\ \E a \in Attempts : pc[a] = "capturing"

\* C3: every attempt, once its pass is selected, ends in exactly one of the
\* outcomes logged and failed, whatever the capture process and the decoder
\* do (unless the operator interrupts the wait); an outcome, once reached,
\* stays.
C3_Terminates ==
    /\ \A a \in Attempts :
          (pc[a] # "idle") ~> (Ended(a) \/ Stopped(a))
    /\ [][\A a \in Attempts :
            outcome[a] # "none" => (outcome'[a] = outcome[a] /\ pc'[a] = pc[a])]_vars

C3_Witness ==
    \E a \in Attempts : proc[a] = "timeout" /\ now >= deadline[a] /\ Ended(a)

\* C4: an attempt that ends after its capture step was run (success, capture
\* failure, capture timeout, decode failure) has made exactly one call of its
\* log function, and no attempt makes two; the call leaves exactly one record
\* of the attempt in the log, and in the command-line programs that record
\* is there when the attempt has ended.
C4_LoggedOnce ==
    /\ [](\A a \in Attempts :
            /\ logged[a] <= 1
            /\ RecordCount(a) <= 1
            /\ (Ended(a) /\ Attempted(a)) =>
                  /\ logged[a] = 1
                  /\ entry # "server" => RecordCount(a) = 1)
    /\ [][\A a \in Attempts :
            logged'[a] # logged[a] =>
                /\ ~Ended(a)
                /\ logged'[a] = 1
                /\ RecordCountIn(mission_log', missions', a) = 1]_vars

C4_Witness ==
    \E a \in Attempts :
        Ended(a) /\ proc[a] = "timeout" /\ logged[a] = 1 /\ RecordCount(a) = 1

\* C5: the phases of an attempt follow one another in the order selected,
\* waiting, capturing, decoding, terminal, none is entered twice, nothing
\* follows the terminal phase, and the decoder is invoked only after the
\* capture has succeeded.
C5_PhaseOrder ==
    [][\A a \in Attempts :
        /\ PhaseOf(pc'[a]) >= PhaseOf(pc[a])
        /\ pc[a] \in {"done", "aborted"} => pc'[a] = pc[a]
        /\ (pc'[a] = "decoding" /\ pc[a] # "decoding") =>
              (proc[a] = "exit0" /\ Exists(OutputFile(pass[a]), files))]_vars

\* C6: a mission record says capture_success only when the capture process
\* exited with status 0 and its output artifact exists.
C6_SuccessNeedsArtifact ==
    \A a \in Attempts : \A r \in Records(a) :
        (Has(r, "capture_success") /\ r.capture_success) => CaptureSucceeded(a)

\* C7: a capture timeout, a non-zero exit status and a missing capture
\* program make execute_capture return None with no exception; the attempt
\* is logged with capture_success false; the daemon does not stop (only an
\* interrupt of a wait stops it): it goes on to its pause and its next loop
\* test.
C7_CaptureFailureHandled ==
    \A a \in Attempts :
        proc[a] \in {"timeout", "exitN", "missing"} =>
            /\ raised[a] = ""
            /\ pc[a] # "aborted"
            /\ capture_file[a] = None
            /\ \A r \in Records(a) :
                  Has(r, "capture_success") /\ ~r.capture_success
            /\ (Ended(a) /\ entry # "server") => RecordCount(a) = 1
            /\ entry = "daemon" =>
                  /\ dpc = "aborted" => \E b \in Attempts : Stopped(b)
                  /\ (dpc = "running" /\ pc[a] = "done"
                        /\ a = Cardinality(Started)) =>
                        ENABLED (\E over \in Oversleeps : DaemonResume(over))

C7_Witness ==
    /\ entry = "daemon"
    /\ dpc = "loop"
    /\ \E a \in Attempts :
          proc[a] = "timeout" /\ Ended(a) /\ RecordCount(a) = 1

\* C8: when the capture succeeded and the decoder raises, the attempt still
\* logs, and its record has capture_success true and decode_success false.
DecoderRaised(a) ==
    decoder_invoked[a] /\ decode_result[a] = "None" /\ pc[a] # "decoding"

C8_DecodeErrorLogged ==
    \A a \in Attempts :
        (CaptureSucceeded(a) /\ DecoderRaised(a)) =>
            /\ pc[a] # "aborted"
            /\ \A r \in Records(a) :
                  /\ Has(r, "capture_success") /\ r.capture_success
                  /\ Has(r, "decode_success") /\ ~r.decode_success
            /\ Ended(a) =>
                  /\ logged[a] = 1
                  /\ entry # "server" => RecordCount(a) = 1

C8_Witness ==
    \E a \in Attempts :
        /\ CaptureSucceeded(a) /\ DecoderRaised(a) /\ Ended(a)
        /\ \E r \in Records(a) : r.capture_success /\ ~r.decode_success

\* C9: a stop request during the wait ends the attempt in the failed state,
\* with a mission record whose reason is 'cancelled', and the capture
\* process is never started.
C9_CancelledWait ==
    \A a \in Attempts :
        Stopped(a) =>
            /\ proc[a] = "none"
            /\ outcome[a] = "failed"
            /\ \E r \in Records(a) : Has(r, "notes") /\ r.notes = "cancelled"

\* C10: wait_for_pass returns only once the clock has reached AOS minus the
\* margin; it returns at once, without a sleep, when that instant is past;
\* after every sleep it takes the remaining time from the clock and goes on
\* waiting exactly while it is positive; and the wait ends.
C10_WaitForPass ==
    /\ [](\A a \in Attempts : waited[a] => now >= StartTime(pass[a]))
    /\ [][\A a \in Attempts :
            /\ (pc[a] = "selected" /\ pc'[a] # "selected" /\ CallsWait(a)
                  /\ now >= StartTime(pass[a]))
               => (waited'[a] /\ ~slept'[a] /\ now' = now /\ pc'[a] = "ready")
            /\ (pc[a] = "waiting" /\ pc'[a] \in {"waiting", "ready"})
               => /\ wait_seconds'[a] = StartTime(pass[a]) - now'
                  /\ now' > now
                  /\ (pc'[a] = "waiting") <=> (StartTime(pass[a]) - now' > 0)]_vars
    /\ \A a \in Attempts : (pc[a] = "waiting") ~> (pc[a] # "waiting")

C10_Witness ==
    \E a \in Attempts :
        waited[a] /\ slept[a] /\ pc[a] = "ready" /\ now > StartTime(pass[a])

\* ======================================================================
\* The schedule optimizer (python/ml/scheduler_optimizer.py)
\* ======================================================================
\* ---------------------------------------------------------------- bounds
\* candidate passes of one schedule
MaxCands == 3

\* CONSTRAINTS: the defaults.  Probabilities are in tenths
MIN_GAP_MINUTES == 30
MAX_CAPTURES_PER_DAY == 8
MIN_SUCCESS_PROBABILITY == 3
MAX_CONSECUTIVE_SAME_SAT == 3
SECONDS_PER_MINUTE == 60
SECONDS_PER_DAY == 86400

\* no capture program runs
PipelineOff ==
    /\ entry = "off"
    /\ opts = [wait |-> TRUE, skip_decode |-> FALSE]
    /\ now = 0
    /\ pc = [a \in Attempts |-> "idle"]
    /\ pass = [a \in Attempts |-> NoPass]
    /\ wait_seconds = [a \in Attempts |-> 0]
    /\ slept = [a \in Attempts |-> FALSE]
    /\ waited = [a \in Attempts |-> FALSE]
    /\ proc = [a \in Attempts |-> "none"]
    /\ deadline = [a \in Attempts |-> 0]
    /\ raised = [a \in Attempts |-> ""]
    /\ capture_file = [a \in Attempts |-> None]
    /\ files = {}
    /\ decode_result = [a \in Attempts |-> "unset"]
    /\ mission_entry = [a \in Attempts |-> [status |-> "none"]]
    /\ decoder_invoked = [a \in Attempts |-> FALSE]
    /\ outcome = [a \in Attempts |-> "none"]
    /\ capturing = FALSE
    /\ current_capture = None
    /\ resp = "none"
    /\ requests = 0
    /\ mission_log = << >>
    /\ missions = << >>
    /\ loaded = [a \in Attempts |-> << >>]
    /\ logged = [a \in Attempts |-> 0]
    /\ capture_history = << >>
    /\ dpc = "off"
    /\ end_time = 0

\* the constraint settings tried: the defaults, and settings under which few
\* candidates are enough to reach each limit
ConstraintSettings ==
    {[min_gap_minutes |-> MIN_GAP_MINUTES,
      max_captures_per_day |-> MAX_CAPTURES_PER_DAY,
      min_success_probability |-> MIN_SUCCESS_PROBABILITY,
      max_consecutive_same_sat |-> MAX_CONSECUTIVE_SAME_SAT],
     [min_gap_minutes |-> 0, max_captures_per_day |-> 2,
      min_success_probability |-> MIN_SUCCESS_PROBABILITY,
      max_consecutive_same_sat |-> MAX_CONSECUTIVE_SAME_SAT],
     [min_gap_minutes |-> 0, max_captures_per_day |-> MAX_CAPTURES_PER_DAY,
      min_success_probability |-> MIN_SUCCESS_PROBABILITY,
      max_consecutive_same_sat |-> 2],
     [min_gap_minutes |-> MIN_GAP_MINUTES, max_captures_per_day |-> 1,
      min_success_probability |-> 0, max_consecutive_same_sat |-> 1],
     [min_gap_minutes |-> 10, max_captures_per_day |-> 2,
      min_success_probability |-> 6, max_consecutive_same_sat |-> 1]}

\* the passes a candidate may be: two satellites; AOS at the start of the
\* first day, 25 and 50 minutes later, and on the next day; 15 minutes long;
\* a predicted success probability of 0.2, 0.5 or 0.8
SatelliteNames == {"NOAA 15", "NOAA 18"}
CandidateAos == {0, 1500, 3000, 90000}
CandidateDuration == 900
Scores == {2, 5, 8}
CandidatePasses ==
    {[satellite |-> n, aos_time |-> t, los_time |-> t + CandidateDuration,
      score |-> sc] : n \in SatelliteNames, t \in CandidateAos, sc \in Scores}

\* get_upcoming_passes: what it returns is sorted by AOS
SortedByAos(ps) ==
    \A i, j \in 1..Len(ps) : i < j => ps[i].aos_time <= ps[j].aos_time
CandidateLists ==
    UNION {{ps \in [1..n -> CandidatePasses] : SortedByAos(ps)} : n \in 0..MaxCands}

\* the orders a list of n items may be put in: o[k] is the item at place k
Orders(n) ==
    {o \in [1..n -> 1..n] : \A i, j \in 1..n : o[i] = o[j] => i = j}

\* a sort by score, descending, that may put equal scores in any order
SortedByScoreUnstable(ps) ==
    {o \in Orders(Len(ps)) :
        \A i, j \in 1..Len(ps) : i < j => ps[o[i]].score >= ps[o[j]].score}
\* a sort by score, descending, that reverses the order of equal scores
SortedByScoreTiesReversed(ps) ==
    {o \in Orders(Len(ps)) :
        \A i, j \in 1..Len(ps) : i < j =>
            \/ ps[o[i]].score > ps[o[j]].score
            \/ ps[o[i]].score = ps[o[j]].score /\ o[i] > o[j]}
\* scored_passes.sort(key=score, reverse=True): list.sort is stable, also
\* with reverse=True: items of equal score keep the order they had.  The
\* result is a set, of one order
SortedByScore(ps) ==
    {o \in Orders(Len(ps)) :
        \A i, j \in 1..Len(ps) : i < j =>
            \/ ps[o[i]].score > ps[o[j]].score
            \/ ps[o[i]].score = ps[o[j]].score /\ o[i] < o[j]}

\* datetime.isoformat(), as far as strings of it compare: the date, then
\* the time of day
IsoFormat(t) == <<t \div SECONDS_PER_DAY, t % SECONDS_PER_DAY>>
IsoLess(x, y) == x[1] < y[1] \/ (x[1] = y[1] /\ x[2] < y[2])
\* schedule.sort(key=scheduled_aos): the schedule is a list of candidates
\* (their places in the candidate list); stable
SortedBySchedule(ps, sch) ==
    {[k \in 1..Len(sch) |-> sch[o[k]]] : o \in
        {o \in Orders(Len(sch)) :
            \A i, j \in 1..Len(sch) : i < j =>
                \/ IsoLess(IsoFormat(ps[sch[o[i]]].aos_time),
                           IsoFormat(ps[sch[o[j]]].aos_time))
                \/ /\ IsoFormat(ps[sch[o[i]]].aos_time)
                        = IsoFormat(ps[sch[o[j]]].aos_time)
                   /\ o[i] < o[j]}}

\* _apply_constraints: "if pred['success_probability'] < min_success_probability"
LowProbability(score, c) == score < c.min_success_probability
\* a gap test that lets every candidate through
GapUnchecked(aos, last_end, c) == FALSE
\* a gap test on the distance, whichever of the two is earlier
GapEitherWay(aos, last_end, c) ==
    /\ last_end # None
    /\ aos - last_end[1] < c.min_gap_minutes * SECONDS_PER_MINUTE
    /\ last_end[1] - aos < c.min_gap_minutes * SECONDS_PER_MINUTE
\* _apply_constraints: "gap = (aos - last_end_time).total_seconds() / 60;
\* if gap < min_gap_minutes", with last_end_time not None
GapTooSmall(aos, last_end, c) ==
    last_end # None /\ aos - last_end[1] < c.min_gap_minutes * SECONDS_PER_MINUTE
\* aos.strftime('%Y-%m-%d')
DayKey(aos) == aos \div SECONDS_PER_DAY
\* a day test that lets every candidate through
DayNeverFull(day_count, c) == FALSE
\* _apply_constraints: "if day_count >= max_captures_per_day"
DayFull(day_count, c) == day_count >= c.max_captures_per_day
\* a run test that lets one capture more through
RunOneLonger(consecutive, c) == consecutive > c.max_consecutive_same_sat
\* _apply_constraints: "if consecutive_same_sat >= max_consecutive_same_sat",
\* after the counter was raised
RunTooLong(consecutive, c) == consecutive >= c.max_consecutive_same_sat
\* captures_by_day.get(day_key, 0)
DayCount(by_day, day_key) == IF day_key \in DOMAIN by_day THEN by_day[day_key] ELSE 0

SchedInit ==
    /\ PipelineOff
    /\ BuilderOff
    /\ DecoderOff
    /\ AuxOff
    /\ candidates \in CandidateLists
    /\ constraints \in ConstraintSettings
    /\ spc = [r \in Runs |-> "ready"]
    /\ scored_passes = [r \in Runs |-> << >>]
    /\ item = [r \in Runs |-> 0]
    /\ schedule = [r \in Runs |-> << >>]
    /\ captures_by_day = [r \in Runs |-> << >>]
    /\ consecutive_same_sat = [r \in Runs |-> 0]
    /\ last_satellite = [r \in Runs |-> None]
    /\ last_end_time = [r \in Runs |-> None]
    /\ decision = [r \in Runs |-> [c \in 1..Len(candidates) |-> "pending"]]

\* generate_schedule: no passes, return []; else the sort by score, and the
\* first lines of _apply_constraints.  The second run follows the first
SortScored(r) ==
    /\ spc[r] = "ready"
    /\ \A q \in Runs : q < r => spc[q] = "done"
    /\ IF candidates = << >>
       THEN /\ spc' = [spc EXCEPT ![r] = "done"]
            /\ UNCHANGED <<scored_passes, item>>
       ELSE /\ \E o \in SortedByScore(candidates) :
                  scored_passes' = [scored_passes EXCEPT ![r] = o]
            /\ item' = [item EXCEPT ![r] = 1]
            /\ spc' = [spc EXCEPT ![r] = "loop"]
    /\ UNCHANGED <<candidates, constraints, schedule, captures_by_day,
                   consecutive_same_sat, last_satellite, last_end_time, decision>>
    /\ UNCHANGED <<pipelineVars, builderVars, decoderVars, auxVars>>

\* _apply_constraints: one turn of "for item in scored_passes"
Evaluate(r) ==
    /\ spc[r] = "loop"
    /\ item[r] <= Len(scored_passes[r])
    /\ LET c == scored_passes[r][item[r]]
           p == candidates[c]
           day_key == DayKey(p.aos_time)
           day_count == DayCount(captures_by_day[r], day_key)
           low == LowProbability(p.score, constraints)
           gap == ~low /\ GapTooSmall(p.aos_time, last_end_time[r], constraints)
           full == ~low /\ ~gap /\ DayFull(day_count, constraints)
           reached == ~low /\ ~gap /\ ~full
           same == Some(p.satellite) = last_satellite[r]
           consecutive == IF ~reached THEN consecutive_same_sat[r]
                          ELSE IF same THEN consecutive_same_sat[r] + 1
                          ELSE 0
           long == reached /\ same /\ RunTooLong(consecutive, constraints)
           accepted == reached /\ ~long
       IN /\ consecutive_same_sat' = [consecutive_same_sat EXCEPT ![r] = consecutive]
          /\ decision' = [decision EXCEPT ![r][c] =
                IF low THEN "low_probability"
                ELSE IF gap THEN "gap"
                ELSE IF full THEN "day_full"
                ELSE IF long THEN "same_satellite"
                ELSE "accepted"]
          /\ IF accepted
             THEN /\ schedule' = [schedule EXCEPT ![r] = Append(@, c)]
                  /\ last_end_time' = [last_end_time EXCEPT ![r] = Some(p.los_time)]
                  /\ last_satellite' = [last_satellite EXCEPT ![r] = Some(p.satellite)]
                  /\ captures_by_day' = [captures_by_day EXCEPT ![r] =
                        Put(@, day_key, day_count + 1)]
             ELSE UNCHANGED <<schedule, last_end_time, last_satellite,
                              captures_by_day>>
    /\ item' = [item EXCEPT ![r] = @ + 1]
    /\ UNCHANGED <<candidates, constraints, spc, scored_passes>>
    /\ UNCHANGED <<pipelineVars, builderVars, decoderVars, auxVars>>

\* _apply_constraints: the loop is over; the schedule is sorted by time and
\* returned
SortSchedule(r) ==
    /\ spc[r] = "loop"
    /\ item[r] > Len(scored_passes[r])
    /\ \E sorted \in SortedBySchedule(candidates, schedule[r]) :
          schedule' = [schedule EXCEPT ![r] = sorted]
    /\ spc' = [spc EXCEPT ![r] = "done"]
    /\ UNCHANGED <<candidates, constraints, scored_passes, item, captures_by_day,
                   consecutive_same_sat, last_satellite, last_end_time, decision>>
    /\ UNCHANGED <<pipelineVars, builderVars, decoderVars, auxVars>>

\* CONSTRAINTS: what ScheduleOptimizer() is made with
DefaultConstraints ==
    [min_gap_minutes |-> MIN_GAP_MINUTES,
     max_captures_per_day |-> MAX_CAPTURES_PER_DAY,
     min_success_probability |-> MIN_SUCCESS_PROBABILITY,
     max_consecutive_same_sat |-> MAX_CONSECUTIVE_SAME_SAT]

\* the n values optimize_next_n is called with
NextNs == -1..(MaxCands + 1)

\* the last n of the schedule
SliceFromEnd(sch, n) ==
    SubSeq(sch, IF n < Len(sch) THEN Len(sch) - n + 1 ELSE 1, Len(sch))
\* schedule[:n]
Slice(sch, n) ==
    IF n >= 0 THEN SubSeq(sch, 1, IF n < Len(sch) THEN n ELSE Len(sch))
    ELSE SubSeq(sch, 1, IF Len(sch) + n > 0 THEN Len(sch) + n ELSE 0)

\* optimize_next_n: the schedule of an optimizer with the default
\* constraints, and "return schedule[:n]"
OptimizeNextN(n) ==
    /\ constraints = DefaultConstraints
    /\ spc[1] = "done"
    /\ next_n = None
    /\ next_n' = Some([n |-> n, passes |-> Slice(schedule[1], n)])
    /\ UNCHANGED <<schedVars, pipelineVars, builderVars, decoderVars, dopplerVars,
                   configVars>>

SchedNext ==
    \/ \E r \in Runs : SortScored(r)
    \/ \E r \in Runs : Evaluate(r)
    \/ \E r \in Runs : SortSchedule(r)
    \/ \E n \in NextNs : OptimizeNextN(n)

SchedSpec == SchedInit /\ [][SchedNext]_vars

\* ------------------------------------------- properties of the schedule
\* run r has returned its schedule
ScheduleReturned(r) == spc[r] = "done"
\* the pass at place k of run r's schedule
Scheduled(r, k) == candidates[schedule[r][k]]
\* candidates a and b have the same score
Tied(a, b) == candidates[a].score = candidates[b].score

\* C11: any two captures adjacent in the returned schedule are at least
\* min_gap_minutes apart: next AOS - previous LOS >= min_gap_minutes * 60 s.
C11_MinGap ==
    \A r \in Runs : ScheduleReturned(r) =>
        \A k \in 1..(Len(schedule[r]) - 1) :
            Scheduled(r, k + 1).aos_time - Scheduled(r, k).los_time
                >= constraints.min_gap_minutes * 60

C11_Witness ==
    \E r \in Runs :
        /\ ScheduleReturned(r)
        /\ Len(schedule[r]) >= 2
        /\ constraints.min_gap_minutes > 0
        /\ \E c \in DOMAIN decision[r] : decision[r][c] = "gap"

\* C12: in the returned schedule no calendar day has more than
\* max_captures_per_day captures with their AOS on it.
C12_MaxPerDay ==
    \A r \in Runs : ScheduleReturned(r) =>
        \A k \in 1..Len(schedule[r]) :
            Cardinality({m \in 1..Len(schedule[r]) :
                DayKey(Scheduled(r, m).aos_time) = DayKey(Scheduled(r, k).aos_time)})
                <= constraints.max_captures_per_day

C12_Witness ==
    \E r \in Runs :
        /\ ScheduleReturned(r)
        /\ Len(schedule[r]) >= 2
        /\ \E c \in DOMAIN decision[r] : decision[r][c] = "day_full"

\* C13: in the returned schedule no run of consecutive captures of one
\* satellite is longer than max_consecutive_same_sat.
C13_MaxConsecutive ==
    \A r \in Runs : ScheduleReturned(r) =>
        \A k \in 1..Len(schedule[r]) :
            LET last == k + constraints.max_consecutive_same_sat
            IN last <= Len(schedule[r]) =>
                  \E m \in k..last :
                      Scheduled(r, m).satellite # Scheduled(r, k).satellite

C13_Witness ==
    \E r \in Runs :
        /\ ScheduleReturned(r)
        /\ Len(schedule[r]) >= 2
        /\ \E c \in DOMAIN decision[r] : decision[r][c] = "same_satellite"

C15_EvaluationOrder ==
    \A r \in Runs : spc[r] \in {"loop", "done"} =>
        /\ \A i, j \in 1..Len(scored_passes[r]) : i < j =>
              LET x == candidates[scored_passes[r][i]]
                  y == candidates[scored_passes[r][j]]
              IN \/ x.score > y.score
                 \/ x.score = y.score /\ x.aos_time <= y.aos_time
        /\ \A a, b \in DOMAIN candidates :
              (Tied(a, b) /\ candidates[a].aos_time < candidates[b].aos_time
                  /\ decision[r][b] # "pending")
              => decision[r][a] # "pending"

C15_Witness ==
    \E r \in Runs : \E a, b \in DOMAIN candidates :
        /\ ScheduleReturned(r)
        /\ Tied(a, b) /\ candidates[a].aos_time < candidates[b].aos_time
        /\ decision[r][a] = "accepted"
        /\ decision[r][b] \in {"gap", "day_full", "same_satellite"}

\* ---------------------------------------------- the mission log, again
\* log s is the beginning of log t
IsPrefix(s, t) == Len(s) <= Len(t) /\ \A i \in 1..Len(s) : t[i] = s[i]

\* C17: the mission log is append-only: whatever the log operations and
\* their interleaving, each stored log is the one stored before, followed by
\* the newly logged records; no record is removed, reordered or altered.
C17_AppendOnly ==
    [][IsPrefix(mission_log, mission_log') /\ IsPrefix(missions, missions')]_vars

\* ======================================================================
\* Passes from find_events' events (schedule_captures.get_upcoming_passes,
\* generate_orbital_data.find_passes)
\* ======================================================================
\* events of one stream
MaxEvents == 5

\* CONFIG['min_elevation_deg']
MIN_ELEVATION_DEG == 20
\* find_events' event numbers
EVENT_AOS == 0
EVENT_TCA == 1
EVENT_LOS == 2

Builders == {"get_upcoming_passes", "find_passes"}
\* what an event may be: its number, and the elevation at a culmination
\* (below and above min_elevation_deg)
EventKinds ==
    {[event |-> EVENT_AOS, el |-> 10], [event |-> EVENT_TCA, el |-> 15],
     [event |-> EVENT_TCA, el |-> 45], [event |-> EVENT_LOS, el |-> 10]}
\* the streams: any events in any order, so also streams that begin in the
\* middle of a pass, lack a TCA or lack a LOS
EventStreams == UNION {[1..n -> EventKinds] : n \in 0..MaxEvents}
\* ti of the event at place k: find_events returns increasing times
EventTime(k) == k

\* the keys the two functions use
AosKey(b) == IF b = "get_upcoming_passes" THEN "aos_time" ELSE "aos_unix"
TcaKey(b) == IF b = "get_upcoming_passes" THEN "max_time" ELSE "tca_unix"
ElKey(b) == IF b = "get_upcoming_passes" THEN "max_elevation" ELSE "max_el"
LosKey(b) == IF b = "get_upcoming_passes" THEN "los_time" ELSE "los_unix"

\* branches that do not ask whether a pass is open
PassOpenUnchecked(cp) == TRUE
\* "if current_pass": the dict is not empty
PassOpen(cp) == DOMAIN cp # {}
\* "'max_elevation' in current_pass", "'max_el' in current_pass"
Culminated(cp, b) == Has(cp, ElKey(b))
\* get_upcoming_passes: "if current_pass['max_elevation'] >= min_elevation";
\* find_passes keeps every pass
Kept(cp, b) == b = "find_passes" \/ cp[ElKey(b)] >= MIN_ELEVATION_DEG

BuilderInit ==
    /\ PipelineOff
    /\ SchedulerOff
    /\ DecoderOff
    /\ AuxOff
    /\ builder \in Builders
    /\ events \in EventStreams
    /\ epos = 1
    /\ current_pass = << >>
    /\ passes = << >>

\* "if event == 0": a new current_pass
OnAos ==
    /\ epos <= Len(events)
    /\ events[epos].event = EVENT_AOS
    /\ current_pass' = (AosKey(builder) :> EventTime(epos))
    /\ epos' = epos + 1
    /\ UNCHANGED <<builder, events, passes>>
    /\ UNCHANGED <<pipelineVars, schedVars, decoderVars, auxVars>>

\* "elif event == 1": the culmination, when a pass is open
OnTca ==
    /\ epos <= Len(events)
    /\ events[epos].event = EVENT_TCA
    /\ current_pass' =
          IF PassOpen(current_pass)
          THEN Put(Put(current_pass, TcaKey(builder), EventTime(epos)),
                   ElKey(builder), events[epos].el)
          ELSE current_pass
    /\ epos' = epos + 1
    /\ UNCHANGED <<builder, events, passes>>
    /\ UNCHANGED <<pipelineVars, schedVars, decoderVars, auxVars>>

\* "elif event == 2": the pass is closed and emitted when it is open and has
\* its culmination.  find_passes empties current_pass at every LOS,
\* get_upcoming_passes only when the pass was closed
OnLos ==
    /\ epos <= Len(events)
    /\ events[epos].event = EVENT_LOS
    /\ IF PassOpen(current_pass) /\ Culminated(current_pass, builder)
       THEN LET closed == Put(current_pass, LosKey(builder), EventTime(epos))
            IN /\ passes' = IF Kept(closed, builder) THEN Append(passes, closed)
                            ELSE passes
               /\ current_pass' = << >>
       ELSE /\ current_pass' =
                  IF builder = "find_passes" THEN << >> ELSE current_pass
            /\ UNCHANGED passes
    /\ epos' = epos + 1
    /\ UNCHANGED <<builder, events>>
    /\ UNCHANGED <<pipelineVars, schedVars, decoderVars, auxVars>>

BuilderNext == OnAos \/ OnTca \/ OnLos

BuilderSpec == BuilderInit /\ [][BuilderNext]_vars

\* C16: whatever the stream of events, every emitted pass has its AOS, TCA
\* and LOS, with AOS < TCA < LOS; a pass that lacks its TCA or its LOS is
\* not emitted.
C16_CompletePasses ==
    \A k \in 1..Len(passes) :
        LET p == passes[k]
        IN /\ Has(p, AosKey(builder))
           /\ Has(p, TcaKey(builder))
           /\ Has(p, LosKey(builder))
           /\ p[AosKey(builder)] < p[TcaKey(builder)]
           /\ p[TcaKey(builder)] < p[LosKey(builder)]

\* a stream that begins in the middle of a pass and has a pass without its
\* culmination, read to its end, with a pass emitted
C16_Witness ==
    /\ epos > Len(events)
    /\ Len(passes) >= 1
    /\ events[1].event # EVENT_AOS
    /\ \E k \in 1..(Len(events) - 1) :
          events[k].event = EVENT_AOS /\ events[k + 1].event = EVENT_LOS

\* ======================================================================
\* The APT decoders (python/demod/decode_apt.py, decode_apt_wav.py), from
\* the sync pulses on
\* ======================================================================
\* peaks find_sync_pulses may return
MaxPeaks == 11

APT_LINES_PER_SEC == 2
APT_PIXELS_PER_LINE == 2080
APT_SAMPLE_RATE == 20800
\* "if len(sync_positions) < 10" (decode_apt), "< 5" (decode_wav)
FALLBACK_BELOW == 10
WAV_FALLBACK_BELOW == 5

Decoders == {"decode_apt", "decode_wav"}
\* find_sync_pulses: samples_per_line = int(sample_rate / APT_LINES_PER_SEC)
SamplesPerLine == APT_SAMPLE_RATE \div APT_LINES_PER_SEC
FallbackBelow(d) == IF d = "decode_apt" THEN FALLBACK_BELOW ELSE WAV_FALLBACK_BELOW

\* len(envelope): less than a line, one line, three and a half lines, ten
\* lines, a little over twelve
EnvelopeLens == {5000, 10400, 36400, 104000, 125000}
\* where the first peak is, and how far apart the peaks are: find_peaks
\* returns peaks at least 0.9 (0.8) of a line apart
PeakOffsets == {0, 300}
PeakSpacings == {9400, 10400, 10500}
\* the peaks: up to MaxPeaks of them, evenly spaced, inside the envelope
PeakLists(len) ==
    {ps \in {[k \in 1..n |-> o + (k - 1) * d] :
                n \in 0..MaxPeaks, o \in PeakOffsets, d \in PeakSpacings} :
        \A k \in 1..Len(ps) : ps[k] < len}

\* fixed marks, one more than fit
FixedMarksOneMore(len, n) == [k \in 1..(len \div n + 1) |-> (k - 1) * n]
\* the fallback: num_lines = int(len(envelope) / samples_per_line);
\* sync_positions = np.arange(num_lines) * samples_per_line
FixedMarks(len, n) == [k \in 1..(len \div n) |-> (k - 1) * n]
\* signal.resample(line, APT_PIXELS_PER_LINE): the length of what it returns
Resampled(raw, num) == num

DecoderInit ==
    /\ PipelineOff
    /\ SchedulerOff
    /\ BuilderOff
    /\ AuxOff
    /\ decoder \in Decoders
    /\ envelope_len \in EnvelopeLens
    /\ peaks \in PeakLists(envelope_len)
    /\ sync_positions = peaks
    /\ dec_pc = "found"
    /\ lines = << >>
    /\ line_no = 0
    /\ metadata = << >>

\* after find_sync_pulses: the fallback when few peaks were found, and the
\* first lines of extract_lines
ChooseMarks ==
    /\ dec_pc = "found"
    /\ sync_positions' =
          IF Len(sync_positions) < FallbackBelow(decoder)
          THEN FixedMarks(envelope_len, SamplesPerLine)
          ELSE sync_positions
    /\ lines' = << >>
    /\ line_no' = 1
    /\ dec_pc' = "extract"
    /\ UNCHANGED <<decoder, envelope_len, peaks, metadata>>
    /\ UNCHANGED <<pipelineVars, schedVars, builderVars, auxVars>>

\* extract_lines: one turn of the loop; "if end > len(data): break"
ExtractLine ==
    /\ dec_pc = "extract"
    /\ line_no <= Len(sync_positions)
    /\ LET start == sync_positions[line_no]
           end == start + SamplesPerLine
       IN IF end > envelope_len
          THEN /\ dec_pc' = "extracted"
               /\ UNCHANGED <<lines, line_no>>
          ELSE /\ lines' = Append(lines,
                      [start |-> start, end |-> end,
                       pixels |-> Resampled(end - start, APT_PIXELS_PER_LINE)])
               /\ line_no' = line_no + 1
               /\ UNCHANGED dec_pc
    /\ UNCHANGED <<decoder, envelope_len, peaks, sync_positions, metadata>>
    /\ UNCHANGED <<pipelineVars, schedVars, builderVars, auxVars>>

\* extract_lines: the loop is over, np.array(lines) is returned
ExtractDone ==
    /\ dec_pc = "extract"
    /\ line_no > Len(sync_positions)
    /\ dec_pc' = "extracted"
    /\ UNCHANGED <<decoder, envelope_len, peaks, sync_positions, lines, line_no,
                   metadata>>
    /\ UNCHANGED <<pipelineVars, schedVars, builderVars, auxVars>>

\* normalize, save, metadata, return.  With no line np.array(lines) has one
\* dimension: in decode_apt image.shape[1] raises IndexError (if nothing
\* before it did); in decode_wav it is the libraries (percentile of nothing,
\* an image of no rows) that raise or do not
Save ==
    /\ dec_pc = "extracted"
    /\ IF Len(lines) = 0
       THEN /\ dec_pc' \in (IF decoder = "decode_apt" THEN {"raised"}
                            ELSE {"raised", "returned"})
            /\ UNCHANGED metadata
       ELSE /\ dec_pc' = "returned"
            /\ metadata' =
                  IF decoder = "decode_apt"
                  THEN [image_width |-> lines[1].pixels,
                        image_height |-> Len(lines),
                        sync_pulses_found |-> Len(sync_positions)]
                  ELSE metadata
    /\ UNCHANGED <<decoder, envelope_len, peaks, sync_positions, lines, line_no>>
    /\ UNCHANGED <<pipelineVars, schedVars, builderVars, auxVars>>

DecoderNext == ChooseMarks \/ ExtractLine \/ ExtractDone \/ Save

DecoderSpec == DecoderInit /\ [][DecoderNext]_vars

\* the fallback was taken: fewer peaks than the threshold
FallbackTaken == Len(peaks) < FallbackBelow(decoder)
\* extract_lines has returned
Extracted == dec_pc \in {"extracted", "returned", "raised"}

C19_ReportedCount ==
    (FallbackTaken /\ dec_pc = "returned" /\ decoder = "decode_apt") =>
        /\ metadata.sync_pulses_found = Len(peaks)
        /\ metadata.sync_pulses_found < FALLBACK_BELOW

\* C20: each extracted line is the envelope from one mark to the next (to
\* the mark + the nominal line length for the last mark), resampled to 2080
\* pixels; a line whose slice would pass the end of the envelope is dropped.
SliceEnd(k) ==
    IF k < Len(sync_positions) THEN sync_positions[k + 1]
    ELSE sync_positions[k] + SamplesPerLine

C20_MarkToMark ==
    Extracted =>
        /\ \A k \in 1..Len(lines) :
              /\ lines[k].start = sync_positions[k]
              /\ lines[k].end = SliceEnd(k)
              /\ lines[k].pixels = 2080
        /\ \A k \in 1..Len(sync_positions) :
              (SliceEnd(k) <= envelope_len) => k <= Len(lines)

\* C21: for every readable, non-empty capture the decoders return an image
\* without raising, also when the peaks are few or none and when the
\* recording is shorter than one line.
C21_AlwaysImage == (envelope_len > 0) => dec_pc # "raised"

\* the keys of a record that say what the claim of C22 lists; the image
\* path may be under either of the two names the emitters use
HasMissionFields(rec) ==
    /\ {"satellite", "aos_utc", "los_utc", "max_elevation_deg",
        "capture_success", "decode_success", "capture_file"} \subseteq DOMAIN rec
    /\ Has(rec, "image_file") \/ Has(rec, "decoded_image")

\* C22: every mission record written at the end of an attempt has the
\* satellite, AOS and LOS, maximum elevation, capture-success flag,
\* decode-success flag, capture-file path and image-file path, whoever
\* wrote it and whatever the outcome.
C22_FullRecord ==
    /\ \A i \in 1..Len(mission_log) : HasMissionFields(mission_log[i])
    /\ \A i \in 1..Len(missions) : HasMissionFields(missions[i])

\* ======================================================================
\* The Doppler profile (python/doppler_calc.py calculate_doppler_profile,
\* generate_orbital_data.py compute_doppler_for_pass)
\* ======================================================================
\* num_points of a profile
MaxPoints == 3

\* the speed of light, m/s
C == 299792458

DopplerFns == {"calculate_doppler_profile", "compute_doppler_for_pass"}
\* carrier frequencies, kHz: 1 kHz, NOAA 19's 137.1 MHz, NOAA 15's 137.62 MHz
CarrierFreqs == {1, 137100, 137620}
\* radial velocities, dm/s (0.1 m/s): 1.5 km/s and 0.1 m/s either way, and 0
RadialVelocities == {-15000, -1, 0, 1, 15000}
VelocityProfiles == UNION {[1..n -> RadialVelocities] : n \in 0..MaxPoints}

Abs(x) == IF x < 0 THEN -x ELSE x
Sign(x) == IF x < 0 THEN -1 ELSE IF x > 0 THEN 1 ELSE 0

\* <<q, r>> with a * b = q * c + r and 0 <= r < c, for 0 <= a < c; the
\* product itself may be too large to compute
RECURSIVE MulDivMod(_, _, _)
MulDivMod(a, b, c) ==
    IF b = 0 THEN <<0, 0>>
    ELSE LET h == MulDivMod(a, b \div 2, c)
             d == 2 * h[2]
             q2 == 2 * h[1] + (IF d >= c THEN 1 ELSE 0)
             r2 == IF d >= c THEN d - c ELSE d
             e == IF b % 2 = 1 THEN r2 + a ELSE r2
         IN <<q2 + (IF e >= c THEN 1 ELSE 0), IF e >= c THEN e - c ELSE e>>

\* the offset without the minus sign
DopplerUnsigned(f, v) == [num |-> f * v, den |-> C]
\* "doppler = -center_freq_hz * (v_radial_mps / C)".  With f in kHz and v in
\* dm/s the offset is num / den in units of 100 Hz
Doppler(f, v) == [num |-> -f * v, den |-> C]

\* round(doppler, 1): the offset to the nearest 0.1 Hz, halves to the even
\* one, as num / den in units of 100 Hz
RoundTenth(d) ==
    LET a == Abs(d.num)
        whole == (a \div d.den) * 1000
        part == MulDivMod(a % d.den, 1000, d.den)
        fl == whole + part[1]
        up == 2 * part[2] > d.den \/ (2 * part[2] = d.den /\ fl % 2 = 1)
    IN [num |-> Sign(d.num) * (IF up THEN fl + 1 ELSE fl), den |-> 1000]

\* what is appended to doppler_hz: calculate_doppler_profile appends the
\* offset, compute_doppler_for_pass the rounded offset
StoredOffset(fn, d) ==
    IF fn = "compute_doppler_for_pass" THEN RoundTenth(d) ELSE d

DopplerInit ==
    /\ PipelineOff
    /\ SchedulerOff
    /\ BuilderOff
    /\ DecoderOff
    /\ next_n = << >>
    /\ ConfigOff
    /\ doppler_fn \in DopplerFns
    /\ center_freq \in CarrierFreqs
    /\ v_radial \in VelocityProfiles
    /\ doppler_hz = << >>

\* one turn of the loop over the profile points
ProfilePoint ==
    /\ doppler_fn \in DopplerFns
    /\ Len(doppler_hz) < Len(v_radial)
    /\ LET doppler == Doppler(center_freq, v_radial[Len(doppler_hz) + 1])
       IN doppler_hz' = Append(doppler_hz,
              [doppler |-> doppler, stored |-> StoredOffset(doppler_fn, doppler)])
    /\ UNCHANGED <<doppler_fn, center_freq, v_radial>>
    /\ UNCHANGED <<pipelineVars, schedVars, builderVars, decoderVars, next_n,
                   configVars>>

DopplerNext == ProfilePoint

DopplerSpec == DopplerInit /\ [][DopplerNext]_vars

C24_TopN ==
    (next_n # None /\ next_n[1].n >= 0) =>
        LET res == next_n[1].passes
            chosen == {res[k] : k \in 1..Len(res)}
            all == {schedule[1][k] : k \in 1..Len(schedule[1])}
        IN /\ chosen \subseteq all
           /\ Cardinality(chosen) =
                 (IF next_n[1].n < Cardinality(all) THEN next_n[1].n
                  ELSE Cardinality(all))
           /\ \A c \in chosen : \A d \in all \ chosen :
                 candidates[c].score >= candidates[d].score

C24_Witness ==
    /\ next_n # None
    /\ next_n[1].n = 1
    /\ Len(schedule[1]) = 2
    /\ candidates[schedule[1][1]].score > candidates[schedule[1][2]].score

\* ------------------------------------------------ the daemon's duration
\* C25: run_daemon(hours) begins no capture attempt (run_single_capture)
\* later than start + hours; the daemon starts at 0, end_time is start + hours.
C25_WithinDuration ==
    (entry = "daemon") =>
        \A a \in Attempts : (pc[a] = "selected") => now <= end_time

\* ------------------------------------------ the order of acceptance
\* C26: with min_gap_minutes >= 0 and AOS < LOS for every pass, captures are
\* accepted in strictly increasing AOS order: a candidate is accepted only
\* if its AOS is at least min_gap_minutes after the LOS of the capture
\* accepted last, so no pass earlier than an accepted one is accepted after
\* it, and the final sort by AOS leaves the order of acceptance unchanged.
C26_AcceptedInTimeOrder ==
    [][\A r \in Runs :
          /\ \A k \in 1..(Len(schedule'[r]) - 1) :
                LET prev == candidates[schedule'[r][k]]
                    next == candidates[schedule'[r][k + 1]]
                IN /\ prev.aos_time < next.aos_time
                   /\ next.aos_time - prev.los_time
                         >= constraints.min_gap_minutes * 60
          /\ (spc[r] = "loop" /\ spc'[r] = "done") => schedule'[r] = schedule[r]
      ]_vars

C26_Witness ==
    /\ constraints.min_gap_minutes >= 0
    /\ \E r \in Runs : \E a, b \in DOMAIN candidates :
          /\ ScheduleReturned(r)
          /\ Len(schedule[r]) >= 2
          /\ candidates[a].aos_time < candidates[b].aos_time
          /\ candidates[a].score < candidates[b].score
          /\ decision[r][b] = "accepted"
          /\ decision[r][a] = "gap"

\* ------------------------------------------------ the busy flag, cleared
\* a capture thread between its set_capturing and its clear_capturing
HoldsFlag(a) == entry = "server" /\ pc[a] \notin {"idle", "spawned", "done"}

\* C27: when run_capture_async finishes, by whatever path, state.capturing
\* is false and state.current_capture is None; the flag is never set when no
\* attempt that set it is still running, so a request that comes after the
\* attempts have ended is not rejected as busy.
C27_FlagCleared ==
    [][/\ \A a \in Attempts :
             (entry = "server" /\ pc[a] # "done" /\ pc'[a] = "done")
             => (capturing' = FALSE /\ current_capture' = None)
       /\ capturing' => \E a \in Attempts : HoldsFlag(a)'
       /\ (requests' # requests /\ \A a \in Attempts : ~ThreadActive(a))
             => resp' # "busy"
      ]_vars

C27_Witness ==
    /\ entry = "server"
    /\ \E a, b \in Attempts :
          /\ pc[a] = "done" /\ raised[a] # ""
          /\ pc[b] = "done" /\ decode_result[b] = "None" /\ decoder_invoked[b]
    /\ ~capturing
    /\ current_capture = None

\* ------------------------------------------------ the capture window
\* C28: handle_capture starts a capture thread only when the current time is
\* in [AOS - 120 s, LOS) of the requested pass; a request for a pass whose
\* AOS is more than 120 s away or whose LOS is past is answered 400 and
\* starts no capture.
C28_OnlyInWindow ==
    [][\A a \in Attempts :
          (entry = "server" /\ pc[a] = "idle" /\ pc'[a] = "spawned")
          => /\ pass'[a].aos - SERVER_EARLY_SEC <= now'
             /\ now' < pass'[a].aos + pass'[a].dur]_vars

\* ------------------------------------------------ one pass, one AOS
\* the events of the stream strictly between the times t1 and t2
EventsBetween(t1, t2) == {k \in 1..Len(events) : t1 < EventTime(k) /\ EventTime(k) < t2}

\* the LOS of pass p is the first LOS after its AOS, and no other AOS lies
\* between them
SinglePass(p, b) ==
    \A k \in EventsBetween(p[AosKey(b)], p[LosKey(b)]) :
        events[k].event \notin {EVENT_AOS, EVENT_LOS}

\* C29: every pass emitted by get_upcoming_passes is built from the events of
\* one pass: its LOS is the first LOS event after its AOS and no other AOS
\* lies between them; a LOS for a pass without a TCA discards that pass's AOS.
C29_SinglePass ==
    (builder = "get_upcoming_passes") =>
        \A k \in 1..Len(passes) : SinglePass(passes[k], builder)

\* ======================================================================
\* The server's configuration (satcom_server.py DEFAULT_CONFIG, load_config,
\* save_config, handle_put_config)
\* ======================================================================
\* sections a config.json or a PUT body may have
MaxSections == 2

\* DEFAULT_CONFIG, two of its sections with one key each: what each section
\* refers to is a dict
DEFAULT_CONFIG ==
    ("station" :> ("min_elevation_deg" :> 10)) @@ ("capture" :> ("gain_db" :> 40))

\* a JSON value: an object, or something that is not an object
Dict(items) == [kind |-> "dict", items |-> items]
Scalar(n) == [kind |-> "scalar", items |-> ("value" :> n)]
IsDict(v) == v.kind = "dict"

\* the sections a user's document may have
UserSections ==
    {[section |-> "station", value |-> Dict("min_elevation_deg" :> 20)],
     [section |-> "station", value |-> Dict("name" :> 1)],
     [section |-> "station", value |-> Scalar(5)],
     [section |-> "capture", value |-> Dict("gain_db" :> 30)],
     [section |-> "extra", value |-> Dict("x" :> 1)],
     [section |-> "extra", value |-> Scalar(7)]}
\* JSON documents: one that does not parse, and objects of up to MaxSections
\* sections, in the order they are written
Unreadable == [readable |-> FALSE, sections |-> << >>]
Document(secs) == [readable |-> TRUE, sections |-> secs]
UserDocuments ==
    {Unreadable} \cup
    {Document(secs) : secs \in
        {q \in UNION {[1..n -> UserSections] : n \in 0..MaxSections} :
            \A i, j \in 1..Len(q) : q[i].section = q[j].section => i = j}}

\* "config = DEFAULT_CONFIG.copy()": a new dict whose sections refer to the
\* dicts DEFAULT_CONFIG's sections refer to.  shared: those dicts; own: the
\* sections only the copy has; raised: the merge has raised
ShallowCopy(dc) == [shared |-> dc, own |-> << >>, raised |-> FALSE]

\* one turn of "for section in user_config": config[section].update(...)
\* when the section is there and is a dict (update raises when it is given
\* something that is not an object), else config[section] = ...
MergeSection(c, sec) ==
    IF c.raised THEN c
    ELSE IF Has(c.shared, sec.section)
    THEN IF IsDict(sec.value)
         THEN [c EXCEPT !.shared =
                  Put(@, sec.section, sec.value.items @@ c.shared[sec.section])]
         ELSE [c EXCEPT !.raised = TRUE]
    ELSE IF Has(c.own, sec.section) /\ IsDict(c.own[sec.section])
    THEN IF IsDict(sec.value)
         THEN [c EXCEPT !.own =
                  Put(@, sec.section,
                      Dict(sec.value.items @@ c.own[sec.section].items))]
         ELSE [c EXCEPT !.raised = TRUE]
    ELSE [c EXCEPT !.own = Put(@, sec.section, sec.value)]

\* the loop over the sections of a document, from section i on
RECURSIVE Merge(_, _, _)
Merge(c, secs, i) ==
    IF i > Len(secs) THEN c ELSE Merge(MergeSection(c, secs[i]), secs, i + 1)

\* load_config: the copy, merged with config.json when it is there and
\* parses; an exception is caught and the config is returned as it is then
LoadConfig(dc, file) ==
    IF file = None \/ ~file[1].readable THEN ShallowCopy(dc)
    ELSE [Merge(ShallowCopy(dc), file[1].sections, 1) EXCEPT !.raised = FALSE]

\* what DEFAULT_CONFIG is after config c was made from it
DefaultsAfter(dc, c) == IF c.shared = << >> THEN dc ELSE c.shared

\* the sections of a config as a list: DEFAULT_CONFIG's, then the others
RECURSIVE SectionList(_, _)
SectionList(f, names) ==
    IF names = {} THEN << >>
    ELSE LET n == CHOOSE x \in names : TRUE
         IN <<[section |-> n, value |-> f[n]]>> \o SectionList(f, names \ {n})

\* json.dump(config): the document save_config writes
Dumped(c) ==
    Document(SectionList([sec \in DOMAIN c.shared |-> Dict(c.shared[sec])],
                         DOMAIN c.shared)
             \o SectionList(c.own, DOMAIN c.own))

ConfigInit ==
    /\ PipelineOff
    /\ SchedulerOff
    /\ BuilderOff
    /\ DecoderOff
    /\ DopplerOff
    /\ next_n = None
    /\ default_config = DEFAULT_CONFIG
    /\ config_file \in {None} \cup {Some(d) : d \in UserDocuments}
    /\ config = None

\* a call of load_config(): GET /api/config, and every handler that reads
\* the configuration
GetConfig ==
    /\ default_config # << >>
    /\ LET c == LoadConfig(default_config, config_file)
       IN /\ config' = Some(c)
          /\ default_config' = DefaultsAfter(default_config, c)
    /\ UNCHANGED config_file
    /\ UNCHANGED <<pipelineVars, schedVars, builderVars, decoderVars, dopplerVars,
                   next_n>>

\* handle_put_config with body new_config: a body that does not parse is
\* answered 400 before anything is loaded; else load_config, the merge, and
\* save_config unless the merge raised
PutConfig(new_config) ==
    /\ default_config # << >>
    /\ IF ~new_config.readable
       THEN UNCHANGED <<default_config, config_file, config>>
       ELSE LET loaded_config == LoadConfig(default_config, config_file)
                c == Merge(loaded_config, new_config.sections, 1)
            IN /\ default_config' = DefaultsAfter(default_config, c)
               /\ config' = Some([c EXCEPT !.raised = FALSE])
               /\ config_file' = IF c.raised THEN config_file ELSE Some(Dumped(c))
    /\ UNCHANGED <<pipelineVars, schedVars, builderVars, decoderVars, dopplerVars,
                   next_n>>

\* the operator removes config.json
RemoveConfigFile ==
    /\ default_config # << >>
    /\ config_file # None
    /\ config_file' = None
    /\ UNCHANGED <<default_config, config>>
    /\ UNCHANGED <<pipelineVars, schedVars, builderVars, decoderVars, dopplerVars,
                   next_n>>

ConfigNext ==
    \/ GetConfig
    \/ \E new_config \in UserDocuments : PutConfig(new_config)
    \/ RemoveConfigFile

ConfigSpec == ConfigInit /\ [][ConfigNext]_vars

\* C30: load_config and PUT /api/config leave DEFAULT_CONFIG unchanged,
\* whatever config.json holds; a load_config with no config file, or with one
\* that cannot be read, returns the defaults.
C30_DefaultsKept == default_config = DEFAULT_CONFIG

====
